---- MODULE Spec2Model ----
(***************************************************************************)
(* Verification model of the Sinhala agentic fake-news verifier:           *)
(*   - the two-tier memory cache   (backend/app/store/memory_store.py)     *)
(*   - the evidence pipeline       (backend/app/agents/*.py)               *)
(* Floats are scaled integers: similarities and confidences in percent,    *)
(* source weights in tenths, label scores in halves.                       *)
(***************************************************************************)
EXTENDS Integers, Sequences, FiniteSets, TLC

(***************************************************************************)
(* Bounds                                                                  *)
(***************************************************************************)
MaxAccess == 2      \* cap of verified_claims.access_count
NumThreads == 2     \* concurrent store_result callers

Claims  == {"claim one", "claim two"}     \* claim texts
Threads == 1..NumThreads

(***************************************************************************)
(* Values                                                                  *)
(***************************************************************************)
None == [kind |-> "None"]

\* verification results as HybridVerifier._generate_final_verdict builds them
Results ==
  {[kind |-> "result", verdict |-> [label |-> "true", confidence |-> 90]],
   [kind |-> "result", verdict |-> [label |-> "false", confidence |-> 50]]}

\* ShortTermMemory._get_key : "claim:" + md5(claim)
ShortTermMemory_get_key(claim) == <<"claim:", claim>>

\* LongTermMemory._get_hash : sha256(claim)
LongTermMemory_get_hash(claim) == <<"sha256", claim>>

ShortKeys == {ShortTermMemory_get_key(c) : c \in Claims}
LongKeys  == {LongTermMemory_get_hash(c) : c \in Claims}

\* json.dumps(value, default=str): datetime columns become strings
json_dumps(v) ==
  [kind |-> "json",
   text |-> IF v.kind = "row" THEN [v EXCEPT !.verified_at = "str"] ELSE v]

\* json.loads(data)
json_loads(s) == s.text

\* Python truthiness of an Optional[Dict] holding a non-empty dict
Truthy(v) == v # None

(***************************************************************************)
(* State of the memory manager and of its two backing stores               *)
(***************************************************************************)
VARIABLES
  POSTGRES_AVAILABLE,  \* the psycopg2 package imported
  redisUp,             \* the Redis server answers
  pgUp,                \* the PostgreSQL server answers
  client,              \* ShortTermMemory.client is not None
  redis,               \* contents of the Redis server, by key
  fallback_cache,      \* ShortTermMemory.fallback_cache
  conn,                \* LongTermMemory.conn: "none", "open", "closed"
  pg,                  \* table verified_claims, by claim_hash
  fallback_storage,    \* LongTermMemory.fallback_storage
  clock,               \* seconds on the clock
  set_at,              \* when ShortTermMemory.set last kept an entry, by key
  log,                 \* the last manager call since the environment changed
  tpc,                 \* position of each concurrent caller
  tret,                \* what the concurrent reader last returned
  current_year,        \* datetime.now().year
  lang_proc,           \* the LangProcAgent: _provider and _auto_fallback
  redis_emb,           \* texts with an "emb:" key on the Redis server
  index,               \* documents of the "dataset" namespace of the vector store
  stage,               \* how far HybridVerifier.verify has come
  decomposed,          \* output of ClaimDecomposer.decompose
  search,              \* what the vector search and the web searches returned
  evidence,            \* output of HybridRetriever.retrieve
  cross_exam,          \* output of CrossExaminer.examine
  web_analysis,        \* output of WebAnalyzer.analyze
  cot_result,          \* output of CoTReasoner.reason
  verify_result,       \* what HybridVerifier.verify returns
  held                 \* the result object an earlier caller of verify holds

cacheVars == <<POSTGRES_AVAILABLE, redisUp, pgUp, client,
               redis, fallback_cache, conn, pg, fallback_storage, clock, set_at>>

langVars == <<lang_proc, redis_emb>>

pipeVars == <<current_year, lang_proc, redis_emb, index, stage, decomposed, search, evidence, cross_exam,
             web_analysis, cot_result, verify_result, held>>

\* the cache as one value, so that a handler's calls compose
Mem ==
  [POSTGRES_AVAILABLE |-> POSTGRES_AVAILABLE,
   redisUp |-> redisUp, pgUp |-> pgUp, client |-> client, redis |-> redis,
   fallback_cache |-> fallback_cache, conn |-> conn, pg |-> pg,
   fallback_storage |-> fallback_storage, clock |-> clock, set_at |-> set_at]

Install(m) ==
  /\ POSTGRES_AVAILABLE' = m.POSTGRES_AVAILABLE
  /\ redisUp' = m.redisUp
  /\ pgUp' = m.pgUp
  /\ client' = m.client
  /\ redis' = m.redis
  /\ fallback_cache' = m.fallback_cache
  /\ conn' = m.conn
  /\ pg' = m.pg
  /\ fallback_storage' = m.fallback_storage
  /\ clock' = m.clock
  /\ set_at' = m.set_at

(***************************************************************************)
(* ShortTermMemory                                                         *)
(***************************************************************************)
\* __init__: the client is kept only if the package is there and ping() works
ShortTermMemory_init(available, up) == available /\ up

\* get that hands back the stored JSON text without json.loads
ShortTermMemory_get_raw(m, claim) ==
  LET key == ShortTermMemory_get_key(claim) IN
  IF m.client
    THEN IF m.redisUp /\ m.redis[key] # None
           THEN m.redis[key]
           ELSE None
    ELSE IF m.fallback_cache[key] # None
           THEN m.fallback_cache[key]
           ELSE None

ShortTermMemory_get(m, claim) ==
  LET key == ShortTermMemory_get_key(claim) IN
  IF m.client
    THEN IF m.redisUp /\ m.redis[key] # None
           THEN json_loads(m.redis[key])
           ELSE None                       \* no data, or the error is swallowed
    ELSE IF m.fallback_cache[key] # None
           THEN m.fallback_cache[key]
           ELSE None

\* self.ttl, in seconds
ShortTermMemory_ttl == 3600

\* SETEX key ttl value: Redis drops the key once ttl seconds have passed
ShortTermMemory_set(m, claim, result) ==
  LET key == ShortTermMemory_get_key(claim) IN
  IF m.client
    THEN IF m.redisUp
           THEN [m |-> [m EXCEPT !.redis[key] = json_dumps(result),
                                 !.set_at[key] = m.clock],
                 ret |-> TRUE]
           ELSE [m |-> m, ret |-> FALSE]   \* "Redis set error", nothing kept
    ELSE [m |-> [m EXCEPT !.fallback_cache[key] = result, !.set_at[key] = m.clock],
          ret |-> TRUE]

(***************************************************************************)
(* LongTermMemory                                                          *)
(***************************************************************************)
LongTermMemory_connect(m) ==
  [m EXCEPT !.conn = IF m.pgUp THEN "open" ELSE "none"]

LongTermMemory_init(m) ==
  IF m.POSTGRES_AVAILABLE THEN LongTermMemory_connect(m) ELSE m

LongTermMemory_ensure_connection(m) ==
  IF ~m.POSTGRES_AVAILABLE THEN m
  ELSE IF m.conn = "none" \/ m.conn = "closed" THEN LongTermMemory_connect(m)
  ELSE m

\* UPDATE ... SET access_count = access_count + 1 ... RETURNING *
LongTermMemory_get(m, claim) ==
  LET claim_hash == LongTermMemory_get_hash(claim)
      m1 == LongTermMemory_ensure_connection(m)
  IN
  IF m1.conn = "open"
    THEN IF m1.pgUp /\ m1.pg[claim_hash] # None
           THEN LET row == [m1.pg[claim_hash] EXCEPT !.access_count = @ + 1]
                IN [m |-> [m1 EXCEPT !.pg[claim_hash] = row], ret |-> row]
           ELSE [m |-> m1, ret |-> None]   \* no row, or "Get error"
    ELSE IF m1.fallback_storage[claim_hash] # None
           THEN [m |-> m1, ret |-> m1.fallback_storage[claim_hash]]
           ELSE [m |-> m1, ret |-> None]

\* INSERT ... ON CONFLICT (claim_hash) DO UPDATE ...
LongTermMemory_store(m, claim, result) ==
  LET claim_hash == LongTermMemory_get_hash(claim)
      m1 == LongTermMemory_ensure_connection(m)
      old == m1.pg[claim_hash]
      row == [kind |-> "row", claim_text |-> claim,
              verdict |-> result.verdict.label,
              confidence |-> result.verdict.confidence,
              verified_at |-> "datetime",
              access_count |-> IF old = None THEN 1 ELSE old.access_count + 1]
  IN
  IF m1.conn = "open"
    THEN IF m1.pgUp
           THEN [m |-> [m1 EXCEPT !.pg[claim_hash] = row], ret |-> TRUE]
           ELSE [m |-> m1, ret |-> FALSE]  \* "Store error", nothing kept
    ELSE [m |-> [m1 EXCEPT !.fallback_storage[claim_hash] =
                    [kind |-> "summary", claim_text |-> claim,
                     verdict |-> result.verdict.label,
                     confidence |-> result.verdict.confidence,
                     verified_at |-> "str"]],
          ret |-> TRUE]

\* the access counter stays within its cap
AccessRoom(m, claim) ==
  LET row == m.pg[LongTermMemory_get_hash(claim)] IN
  IF row = None THEN TRUE ELSE row.access_count < MaxAccess

(***************************************************************************)
(* MemoryManager                                                           *)
(***************************************************************************)
MemoryManager_get_cached_result(m, claim) ==
  LET result == ShortTermMemory_get(m, claim) IN
  IF Truthy(result)
    THEN [m |-> m, ret |-> result, tier |-> "short"]
    ELSE LET lt == LongTermMemory_get(m, claim) IN
         IF Truthy(lt.ret)
           THEN [m |-> ShortTermMemory_set(lt.m, claim, lt.ret).m,
                 ret |-> lt.ret, tier |-> "long"]
           ELSE [m |-> lt.m, ret |-> None, tier |-> "miss"]

MemoryManager_store_result(m, claim, result) ==
  LET st == ShortTermMemory_set(m, claim, result)
      lt == LongTermMemory_store(st.m, claim, result)
  IN [m |-> lt.m, st_ok |-> st.ret, lt_ok |-> lt.ret]

\* how each tier stands when a call is made
ShortMode(m) ==
  IF ~m.client THEN "fallback" ELSE IF m.redisUp THEN "healthy" ELSE "failing"

LongMode(m) ==
  LET m1 == LongTermMemory_ensure_connection(m) IN
  IF m1.conn # "open" THEN "fallback" ELSE IF m1.pgUp THEN "healthy" ELSE "failing"

(***************************************************************************)
(* LangProcAgent                                                           *)
(***************************************************************************)
Providers == {"openrouter", "pinecone", "local"}

\* __init__ with settings.EMBEDDING_PROVIDER = configured
LangProcAgent_init(configured) ==
  IF configured = "auto"
    THEN [provider |-> "openrouter", auto_fallback |-> TRUE]
    ELSE [provider |-> configured, auto_fallback |-> FALSE]

\* ShortTermMemory.get_embedding: only a Redis client ever has one
ShortTermMemory_get_embedding(m, emb, text) == m.client /\ m.redisUp /\ text \in emb

\* ShortTermMemory.set_embedding
ShortTermMemory_set_embedding(m, emb, text) ==
  IF m.client /\ m.redisUp THEN emb \cup {text} ELSE emb

\* a get_embeddings that goes back to OpenRouter whenever it answers
LangProcAgent_get_embeddings_retrying(lp, m, emb, text, answering) ==
  IF lp.auto_fallback /\ "openrouter" \in answering
    THEN [source |-> "openrouter", lang_proc |-> [lp EXCEPT !.provider = "openrouter"],
          redis_emb |-> ShortTermMemory_set_embedding(m, emb, text)]
    ELSE [source |-> "random", lang_proc |-> [lp EXCEPT !.provider = "local"],
          redis_emb |-> emb]

\* answering: the providers that have a key and return an embedding.
\* source says where the returned vector comes from.
LangProcAgent_get_embeddings(lp, m, emb, text, answering) ==
  IF ShortTermMemory_get_embedding(m, emb, text)
    THEN [source |-> "cache", lang_proc |-> lp, redis_emb |-> emb]
    ELSE
      LET got1 == lp.provider = "openrouter" /\ "openrouter" \in answering
          p1 == IF lp.provider = "openrouter" /\ ~got1 /\ lp.auto_fallback
                  THEN "pinecone" ELSE lp.provider
          got2 == ~got1 /\ p1 = "pinecone" /\ "pinecone" \in answering
          p2 == IF p1 = "pinecone" /\ ~got1 /\ ~got2 /\ lp.auto_fallback
                  THEN "local" ELSE p1
          got3 == ~got1 /\ ~got2 /\ p2 = "local" /\ "local" \in answering
          after == [lp EXCEPT !.provider = p2]
      IN IF got1 \/ got2 \/ got3
           THEN [source |-> IF got1 THEN "openrouter" ELSE IF got2 THEN "pinecone" ELSE "local",
                 lang_proc |-> after,
                 redis_emb |-> ShortTermMemory_set_embedding(m, emb, text)]
           ELSE [source |-> "random", lang_proc |-> after, redis_emb |-> emb]

(***************************************************************************)
(* Sequential use of the cache, with backing stores that come and go       *)
(***************************************************************************)
NoEntries(keys) == [k \in keys |-> None]

NoCall == [op |-> "none", claim |-> "", arg |-> None, ret |-> None,
           tier |-> "none", after |-> None]

CacheInit ==
  /\ POSTGRES_AVAILABLE \in BOOLEAN
  /\ redisUp \in BOOLEAN
  /\ pgUp \in BOOLEAN
  /\ \E REDIS_AVAILABLE \in BOOLEAN :
        client = ShortTermMemory_init(REDIS_AVAILABLE, redisUp)
  /\ conn = LongTermMemory_init([POSTGRES_AVAILABLE |-> POSTGRES_AVAILABLE,
                                 pgUp |-> pgUp, conn |-> "none"]).conn
  /\ redis = NoEntries(ShortKeys)
  /\ fallback_cache = NoEntries(ShortKeys)
  /\ pg = NoEntries(LongKeys)
  /\ fallback_storage = NoEntries(LongKeys)
  /\ clock = 0
  /\ set_at = [k \in ShortKeys |-> -1]      \* nothing written yet

Idle == [pc |-> "idle", claim |-> "", val |-> None]

ThreadsIdle ==
  /\ tpc = [t \in Threads \cup {0} |-> Idle]
  /\ tret = None

\* no verification is running
NothingVerified ==
  /\ stage = "start"
  /\ decomposed = None
  /\ search = None
  /\ evidence = None
  /\ cross_exam = None
  /\ web_analysis = None
  /\ cot_result = None
  /\ verify_result = None
  /\ held = None

PipelineIdle ==
  /\ current_year = 2026
  /\ lang_proc = LangProcAgent_init("auto")
  /\ redis_emb = {}
  /\ index = {}
  /\ NothingVerified

Init ==
  /\ CacheInit
  /\ log = NoCall
  /\ ThreadsIdle
  /\ PipelineIdle

\* the result stored by the call just before, when it was for the same claim
JustStored(claim) ==
  IF log.op = "store" /\ log.claim = claim THEN log.arg ELSE None

StoreResult(claim, result) ==
  LET out == MemoryManager_store_result(Mem, claim, result) IN
  /\ AccessRoom(Mem, claim)
  /\ Install(out.m)
  /\ log' = [op |-> "store", claim |-> claim, arg |-> result, ret |-> None,
             tier |-> "both", after |-> None]
  /\ UNCHANGED <<tpc, tret, pipeVars>>

GetCachedResult(claim) ==
  LET out == MemoryManager_get_cached_result(Mem, claim) IN
  /\ AccessRoom(Mem, claim)
  /\ Install(out.m)
  /\ log' = [op |-> "get", claim |-> claim, arg |-> None, ret |-> out.ret,
             tier |-> out.tier, after |-> JustStored(claim)]
  /\ UNCHANGED <<tpc, tret, pipeVars>>

\* the Redis server becomes unreachable, or reachable again
RedisFlips ==
  /\ redisUp' = ~redisUp
  /\ log' = NoCall
  /\ UNCHANGED <<POSTGRES_AVAILABLE, pgUp, client, redis, fallback_cache, conn, pg,
                 fallback_storage, clock, set_at, tpc, tret, pipeVars>>

\* the PostgreSQL server becomes unreachable, or reachable again
PostgresFlips ==
  /\ pgUp' = ~pgUp
  /\ log' = NoCall
  /\ UNCHANGED <<POSTGRES_AVAILABLE, redisUp, client, redis, fallback_cache, conn, pg,
                 fallback_storage, clock, set_at, tpc, tret, pipeVars>>

\* psycopg2 marks a connection to a lost server as closed
ConnectionCloses ==
  /\ conn = "open"
  /\ ~pgUp
  /\ conn' = "closed"
  /\ log' = NoCall
  /\ UNCHANGED <<POSTGRES_AVAILABLE, redisUp, pgUp, client, redis, fallback_cache, pg,
                 fallback_storage, clock, set_at, tpc, tret, pipeVars>>

Next ==
  \/ \E c \in Claims, r \in Results : StoreResult(c, r)
  \/ \E c \in Claims : GetCachedResult(c)
  \/ RedisFlips
  \/ PostgresFlips
  \/ ConnectionCloses

vars == <<POSTGRES_AVAILABLE, redisUp, pgUp, client, redis,
          fallback_cache, conn, pg, fallback_storage, clock, set_at, log, tpc, tret,
          current_year, lang_proc, redis_emb, index, stage, decomposed, search,
          evidence, cross_exam,
          web_analysis, cot_result, verify_result, held>>

Spec == Init /\ [][Next]_vars

(***************************************************************************)
(* LangProcAgent used on its own                                           *)
(***************************************************************************)
\* settings.EMBEDDING_PROVIDER
InitEmbed ==
  /\ CacheInit
  /\ log = NoCall
  /\ ThreadsIdle
  /\ current_year = 2026
  /\ \E configured \in Providers \cup {"auto"} : lang_proc = LangProcAgent_init(configured)
  /\ redis_emb = {}
  /\ index = {}
  /\ NothingVerified

\* get_embeddings(text); search keeps where the returned vector came from
GetEmbeddings(text, answering) ==
  LET emb == LangProcAgent_get_embeddings(lang_proc, Mem, redis_emb, text, answering) IN
  /\ lang_proc' = emb.lang_proc
  /\ redis_emb' = emb.redis_emb
  /\ search' = [embedding |-> emb.source, text |-> text]
  /\ UNCHANGED <<cacheVars, log, tpc, tret, current_year, index, stage, decomposed,
                 evidence, cross_exam, web_analysis, cot_result, verify_result, held>>

NextEmbed ==
  \/ \E text \in Claims, answering \in SUBSET Providers : GetEmbeddings(text, answering)
  \/ RedisFlips

SpecEmbed == InitEmbed /\ [][NextEmbed]_vars

(***************************************************************************)
(* LongTermMemory used on its own                                          *)
(***************************************************************************)
\* long_term.store(claim, result)
LongStore(claim, result) ==
  LET out == LongTermMemory_store(Mem, claim, result) IN
  /\ AccessRoom(Mem, claim)
  /\ Install(out.m)
  /\ log' = [op |-> "long_store", claim |-> claim, arg |-> result, ret |-> out.ret,
             tier |-> "long", after |-> None]
  /\ UNCHANGED <<tpc, tret, pipeVars>>

\* long_term.get(claim)
LongGet(claim) ==
  LET out == LongTermMemory_get(Mem, claim) IN
  /\ AccessRoom(Mem, claim)
  /\ Install(out.m)
  /\ log' = [op |-> "long_get", claim |-> claim, arg |-> None, ret |-> out.ret,
             tier |-> "long", after |-> None]
  /\ UNCHANGED <<tpc, tret, pipeVars>>

NextLong ==
  \/ \E c \in Claims, r \in Results : LongStore(c, r)
  \/ \E c \in Claims : LongGet(c)
  \/ PostgresFlips
  \/ ConnectionCloses

SpecLong == Init /\ [][NextLong]_vars

(***************************************************************************)
(* The cache as time passes                                                *)
(***************************************************************************)
MaxTicks == 3       \* half hours the clock runs

\* keys whose SETEX time has run out by the time t
Expired(m, t) == {k \in ShortKeys : m.set_at[k] >= 0 /\ t - m.set_at[k] >= ShortTermMemory_ttl}

\* half an hour passes; the Redis server drops the keys that have expired,
\* the in-process map is a plain dict and the table has no expiry
Tick ==
  LET later == clock + ShortTermMemory_ttl \div 2 IN
  /\ later <= MaxTicks * (ShortTermMemory_ttl \div 2)
  /\ clock' = later
  /\ redis' = [k \in ShortKeys |->
                  IF client /\ k \in Expired(Mem, later) THEN None ELSE redis[k]]
  /\ log' = NoCall
  /\ UNCHANGED <<POSTGRES_AVAILABLE, redisUp, pgUp, client, fallback_cache, conn, pg,
                 fallback_storage, set_at, tpc, tret, pipeVars>>

NextTTL ==
  \/ \E c \in Claims, r \in Results : StoreResult(c, r)
  \/ \E c \in Claims : GetCachedResult(c)
  \/ Tick

SpecTTL == Init /\ [][NextTTL]_vars

(***************************************************************************)
(* Concurrent callers: every tier call is one step.  Callers 1..NumThreads *)
(* each run store_result once, caller 0 keeps running get_cached_result.   *)
(***************************************************************************)
\* store_result, first half: self.short_term.set(claim, result)
BeginStore(t, claim, result) ==
  /\ tpc[t].pc = "idle"
  /\ Install(ShortTermMemory_set(Mem, claim, result).m)
  /\ tpc' = [tpc EXCEPT ![t] = [pc |-> "short_written", claim |-> claim, val |-> result]]
  /\ UNCHANGED <<log, tret, pipeVars>>

\* store_result, second half: self.long_term.store(claim, result)
FinishStore(t) ==
  /\ tpc[t].pc = "short_written"
  /\ AccessRoom(Mem, tpc[t].claim)
  /\ Install(LongTermMemory_store(Mem, tpc[t].claim, tpc[t].val).m)
  /\ tpc' = [tpc EXCEPT ![t].pc = "done"]
  /\ UNCHANGED <<log, tret, pipeVars>>

\* get_cached_result: result = self.short_term.get(claim)
ReadShort(claim) ==
  LET result == ShortTermMemory_get(Mem, claim) IN
  /\ tpc[0].pc = "idle"
  /\ IF Truthy(result)
       THEN /\ tret' = result
            /\ tpc' = tpc
       ELSE /\ tret' = tret
            /\ tpc' = [tpc EXCEPT ![0] = [pc |-> "short_missed", claim |-> claim, val |-> None]]
  /\ UNCHANGED <<cacheVars, log, pipeVars>>

\* get_cached_result: result = self.long_term.get(claim)
ReadLong ==
  LET lt == LongTermMemory_get(Mem, tpc[0].claim) IN
  /\ tpc[0].pc = "short_missed"
  /\ AccessRoom(Mem, tpc[0].claim)
  /\ Install(lt.m)
  /\ IF Truthy(lt.ret)
       THEN /\ tret' = tret
            /\ tpc' = [tpc EXCEPT ![0].pc = "long_hit", ![0].val = lt.ret]
       ELSE /\ tret' = None
            /\ tpc' = [tpc EXCEPT ![0] = Idle]
  /\ UNCHANGED <<log, pipeVars>>

\* get_cached_result: self.short_term.set(claim, result); return result
Backfill ==
  /\ tpc[0].pc = "long_hit"
  /\ Install(ShortTermMemory_set(Mem, tpc[0].claim, tpc[0].val).m)
  /\ tret' = tpc[0].val
  /\ tpc' = [tpc EXCEPT ![0] = Idle]
  /\ UNCHANGED <<log, pipeVars>>

NextConc ==
  \/ \E t \in Threads, c \in Claims, r \in Results : BeginStore(t, c, r)
  \/ \E t \in Threads : FinishStore(t)
  \/ \E c \in Claims : ReadShort(c)
  \/ ReadLong
  \/ Backfill

SpecConc == Init /\ [][NextConc]_vars

(***************************************************************************)
(* What each tier holds for a claim                                        *)
(***************************************************************************)
ShortEntry(m, claim) ==
  LET key == ShortTermMemory_get_key(claim) IN
  IF m.client
    THEN IF m.redis[key] # None THEN json_loads(m.redis[key]) ELSE None
    ELSE m.fallback_cache[key]

LongEntry(m, claim) ==
  LET claim_hash == LongTermMemory_get_hash(claim) IN
  IF LongTermMemory_ensure_connection(m).conn = "open"
    THEN m.pg[claim_hash]
    ELSE m.fallback_storage[claim_hash]

\* label and confidence of an entry, whatever its shape
VerdictOf(v) ==
  IF v.kind = "result" THEN v.verdict
  ELSE [label |-> v.verdict, confidence |-> v.confidence]

Holds(entry, result) ==
  IF entry = None THEN FALSE ELSE VerdictOf(entry) = result.verdict

(***************************************************************************)
(* Inputs of the evidence pipeline                                         *)
(***************************************************************************)
MaxDocs == 2        \* matches returned by one vector search
MaxWeb  == 1        \* results returned by one web search

Vocabulary == {"fuel", "price"}

\* the content words of a claim of several sentences: those of Vocabulary
\* and others that no indexed document has
LongClaimWords == 49
ManyWords == Vocabulary \cup {"w" \o ToString(i) : i \in 1..(LongClaimWords - Cardinality(Vocabulary))}
Tokens     == {"si", "en"} \X Vocabulary      \* a word in Sinhala or in English

InScript(script, words) == {<<script, w>> : w \in words}

\* a claim text: its content words, its script, its year references and
\* whether one of RECENT_KEYWORDS occurs in it
ClaimTexts ==
  [words : {{}, Vocabulary, ManyWords}, sinhala : BOOLEAN,
   years : {{}, {2019}, {2026}}, recent_keyword : BOOLEAN]

\* texts of indexed documents
OnTopic  == [words |-> Tokens, years |-> {}]
OffTopic == [words |-> {}, years |-> {}]
OldNews  == [words |-> Tokens, years |-> {2019}]

Doc(id, label, score, source, text) ==
  [id |-> id, label |-> label, score |-> score, source |-> source, text |-> text]

\* documents of the "dataset" namespace
Corpus ==
  {Doc(1, "true", 95, "BBC Sinhala", OnTopic),
   Doc(2, "true", 93, "Hiru News", OnTopic),
   Doc(3, "false", 91, "Ada Derana", OnTopic),
   Doc(4, "fake", 94, "unknown", OffTopic),
   Doc(5, "false", 80, "BBC Sinhala", OnTopic),
   Doc(6, "verified", 85, "ITN News", OnTopic),
   Doc(7, "misleading", 60, "Facebook", OnTopic),
   Doc(8, "", 78, "unknown", OnTopic),
   Doc(9, "false", 70, "unknown", OffTopic),
   Doc(10, "true", 93, "unknown", OldNews),
   Doc(11, "true", 65, "Lankadeepa", OnTopic)}

\* results of one web search: {title, body, href}
WebPages ==
  {[href |-> "https://en.wikipedia.org/wiki/Fuel", title |-> "Fuel", body |-> "confirmed"],
   [href |-> "https://www.newsfirst.lk/fuel", title |-> "Fuel price", body |-> ""]}

SeqsUpTo(S, n) == UNION {[1..k -> S] : k \in 0..n}

\* PineconeVectorStore.search: distinct matches, best score first
SearchResults ==
  {r \in SeqsUpTo(index, MaxDocs) :
     \A i, j \in 1..Len(r) : i < j => r[i].id # r[j].id /\ r[i].score >= r[j].score}

\* HybridRetriever._perform_web_search: distinct pages, or [] when it fails
WebResults ==
  {r \in SeqsUpTo(WebPages, MaxWeb) :
     \A i, j \in 1..Len(r) : i < j => r[i].href # r[j].href}

RECURSIVE SeqSum(_)
SeqSum(q) == IF q = << >> THEN 0 ELSE q[1] + SeqSum(Tail(q))

RECURSIVE SeqMax(_)
SeqMax(q) ==
  IF q = << >> THEN 0
  ELSE LET rest == SeqMax(Tail(q)) IN IF q[1] > rest THEN q[1] ELSE rest

Min(a, b) == IF a < b THEN a ELSE b

SetMax(S) == CHOOSE x \in S : \A y \in S : y <= x

Raised(error) == [kind |-> "raised", error |-> error]

(***************************************************************************)
(* ClaimDecomposer                                                         *)
(***************************************************************************)
\* re.findall(r'\b(20[1-2][0-9])\b', text): of the numbers standing in the
\* text, those from 2010 to 2029
ClaimDecomposer_extract_years(text) == {y \in text.years : y >= 2010 /\ y <= 2029}

\* a classification that looks at the years before the immediacy keywords
ClaimDecomposer_temporal_type_years_first(text, years, now) ==
  IF years # {} /\ SetMax(years) >= now THEN "recent"
  ELSE IF years # {} /\ SetMax(years) <= 2023 THEN "historical"
  ELSE IF text.recent_keyword THEN "recent"
  ELSE "general"

ClaimDecomposer_get_temporal_type(text, years, now) ==
  IF text.recent_keyword THEN "recent"
  ELSE IF years # {} /\ SetMax(years) >= now THEN "recent"
  ELSE IF years # {} /\ SetMax(years) <= 2023 THEN "historical"
  ELSE "general"

ClaimDecomposer_extract_keywords(text) ==
  InScript(IF text.sinhala THEN "si" ELSE "en", text.words)

\* translated is FALSE when GoogleTranslator raises
ClaimDecomposer_decompose(text, translated, now) ==
  LET years == ClaimDecomposer_extract_years(text)
      temporal_type == ClaimDecomposer_get_temporal_type(text, years, now)
      keywords == ClaimDecomposer_extract_keywords(text)
      english == text.sinhala /\ translated
      english_keywords == IF english THEN InScript("en", text.words) ELSE keywords
  IN [original_claim |-> text,
      translated_claim |-> IF english THEN [text EXCEPT !.sinhala = FALSE] ELSE text,
      keywords |-> keywords,
      english_keywords |-> english_keywords,
      years |-> years,
      temporal_type |-> temporal_type,
      vector_query |-> text,
      web_query |-> text,
      english_web_query |-> IF english /\ english_keywords # {} THEN "english" ELSE "",
      needs_web_search |-> (temporal_type = "recent")]

(***************************************************************************)
(* HybridRetriever                                                         *)
(***************************************************************************)
HIGH_SIMILARITY   == 92
MEDIUM_SIMILARITY == 80
LOW_SIMILARITY    == 75

HybridRetriever_should_search_web(d, top_similarity) ==
  IF d.temporal_type = "recent" THEN TRUE
  ELSE IF top_similarity < LOW_SIMILARITY THEN TRUE
  ELSE IF d.temporal_type = "general" THEN TRUE
  ELSE FALSE

HybridRetriever_get_similarity_level(score) ==
  IF score >= HIGH_SIMILARITY THEN "high"
  ELSE IF score >= LOW_SIMILARITY THEN "medium"
  ELSE "low"

\* any(s in source.lower() for s in ["twitter", "facebook", "whatsapp", "social"])
SocialMedia(source) == source \in {"Twitter", "Facebook"}

\* the strict filter for social media
PassesFilter(doc) == ~(SocialMedia(doc.source) /\ doc.score < 88)

FormatWeb(res) ==
  [text |-> IF res.body # "" THEN res.body ELSE res.title,
   source |-> res.title,
   url |-> res.href,
   score |-> IF res.is_translated THEN 82 ELSE 80,
   label |-> "unverified"]

MarkTranslated(results, flag) ==
  [i \in 1..Len(results) |->
     [href |-> results[i].href, title |-> results[i].title,
      body |-> results[i].body, is_translated |-> flag]]

TopSimilarity(docs) == SeqMax([i \in 1..Len(docs) |-> docs[i].score])

\* whether retrieve runs the web search in region lk-en
NeedsWeb(d, db) ==
  IF d.english_web_query # "" THEN TRUE
  ELSE HybridRetriever_should_search_web(d, TopSimilarity(SelectSeq(db, PassesFilter)))

\* db: what the vector search returns; lk, en: what the two web searches
\* return (an empty list when a search fails or is not run)
HybridRetriever_retrieve(d, db, lk, en) ==
  LET filtered_db_results == SelectSeq(db, PassesFilter)
      labeled_history == filtered_db_results     \* whatever their labels
      top_similarity == TopSimilarity(filtered_db_results)
      needs_web == NeedsWeb(d, db)
      web_results ==
        IF needs_web
          THEN MarkTranslated(lk, FALSE) \o
               (IF d.english_web_query # "" THEN MarkTranslated(en, TRUE) ELSE << >>)
          ELSE << >>
      unlabeled_context == [i \in 1..Len(web_results) |-> FormatWeb(web_results[i])]
  IN [labeled_history |-> labeled_history,
      unlabeled_context |-> unlabeled_context,
      web_results |-> web_results,
      web_count |-> Len(web_results),
      top_similarity |-> top_similarity,
      similarity_level |-> HybridRetriever_get_similarity_level(top_similarity),
      total_evidence |-> Len(filtered_db_results) + Len(web_results),
      labeled_count |-> Len(labeled_history),
      unlabeled_count |-> Len(unlabeled_context)]

(***************************************************************************)
(* CrossExaminer.  A score is a fraction [num, den] with den > 0.          *)
(***************************************************************************)
Frac(num, den) == [num |-> num, den |-> den]
Zero == Frac(0, 1)

\* score >= p/q and score <= p/q, for q > 0
AtLeast(score, p, q) == score.num * q >= p * score.den
AtMost(score, p, q)  == score.num * q <= p * score.den

\* SOURCE_WEIGHTS, in tenths
SOURCE_WEIGHTS(source) ==
  CASE source = "BBC Sinhala" -> 10
    [] source = "Hiru News"   -> 9
    [] source = "Ada Derana"  -> 9
    [] source = "Lankadeepa"  -> 9
    [] source = "ITN News"    -> 8
    [] source = "Web Source"  -> 8
    [] source = "Twitter"     -> 5
    [] source = "Facebook"    -> 4
    [] OTHER                  -> 3

LabelsScored == {"true", "real", "verified", "false", "fake", "misleading", "unknown"}

\* LABEL_SCORES, in halves; 0 for a label that is not a key
LABEL_SCORES(label) ==
  CASE label \in {"true", "real", "verified"} -> 2
    [] label \in {"false", "fake"}            -> -2
    [] label = "misleading"                   -> -1
    [] OTHER                                  -> 0

CountLabel(labeled, labels) ==
  Cardinality({i \in 1..Len(labeled) : labeled[i].label \in labels})

\* label_counts.get("true", 0) + label_counts.get("real", 0)
TrueCount(labeled) == CountLabel(labeled, {"true", "real"})

\* label_counts.get("false", 0) + label_counts.get("fake", 0)
FalseCount(labeled) == CountLabel(labeled, {"false", "fake"})

CrossExaminer_analyze_labels(labeled) ==
  IF labeled = << >>
    THEN [has_labels |-> FALSE, label_counts |-> [l \in LabelsScored |-> 0],
          support_score |-> Zero, true_count |-> 0, false_count |-> 0]
    ELSE
      LET known == SelectSeq(labeled, LAMBDA doc : doc.label \in LabelsScored)
          scores == [i \in 1..Len(known) |->
                       LABEL_SCORES(known[i].label) * known[i].score
                         * SOURCE_WEIGHTS(known[i].source)]
      IN [has_labels |-> TRUE,
          label_counts |-> [l \in LabelsScored |-> CountLabel(labeled, {l})],
          support_score |-> IF known = << >> THEN Zero
                            ELSE Frac(SeqSum(scores), 2000 * Len(known)),
          true_count |-> TrueCount(labeled),
          false_count |-> FalseCount(labeled)]

\* the loop of _check_zombie_rumors from document i on; the name re is not
\* bound in this module, so the recycled-news branch raises NameError
RECURSIVE ZombieFrom(_, _, _)
ZombieFrom(labeled, d, i) ==
  IF i > Len(labeled) THEN [is_zombie |-> FALSE, type |-> "none"]
  ELSE IF labeled[i].label \in {"false", "fake"} /\ labeled[i].score >= 90
    THEN [is_zombie |-> TRUE, type |-> "known_false"]
  ELSE IF d.temporal_type = "recent" /\ labeled[i].label \in {"true", "real"}
            /\ labeled[i].score >= 85
    THEN Raised("NameError")
  ELSE ZombieFrom(labeled, d, i + 1)

CrossExaminer_check_zombie_rumors(labeled, d) == ZombieFrom(labeled, d, 1)

CrossExaminer_check_date_consistency(d) ==
  IF d.temporal_type = "historical" /\ d.years # {}
    THEN [type |-> "historical", trust_db |-> TRUE]
  ELSE IF d.temporal_type = "recent"
    THEN [type |-> "recent", trust_db |-> FALSE]
  ELSE [type |-> "general", trust_db |-> TRUE]

CrossExaminer_determine_consensus(label_analysis) ==
  IF label_analysis.true_count > 0 /\ label_analysis.false_count > 0
    THEN [has_consensus |-> FALSE, type |-> "conflict"]
  ELSE IF label_analysis.true_count > 0
    THEN [has_consensus |-> TRUE, type |-> "agree_true"]
  ELSE IF label_analysis.false_count > 0
    THEN [has_consensus |-> TRUE, type |-> "agree_false"]
  ELSE [has_consensus |-> FALSE, type |-> "no_labels"]

\* a score in which unlabeled items count as support
CrossExaminer_score_counting_unlabeled(labeled, unlabeled) ==
  LET weights == [i \in 1..Len(labeled) |->
                    labeled[i].score * SOURCE_WEIGHTS(labeled[i].source)]
      extra == SeqSum([i \in 1..Len(unlabeled) |-> unlabeled[i].score * 2])
      total_score == SeqSum([i \in 1..Len(labeled) |->
                               LABEL_SCORES(labeled[i].label) * weights[i]]) + 2 * extra
      total_weight == SeqSum(weights) + extra
  IN IF total_weight = 0 THEN Zero ELSE Frac(total_score, 2 * total_weight)

\* the second definition of the method, the one the class ends up with
CrossExaminer_calculate_weighted_score(labeled, unlabeled) ==
  LET weights == [i \in 1..Len(labeled) |->
                    labeled[i].score * SOURCE_WEIGHTS(labeled[i].source)]
      total_score == SeqSum([i \in 1..Len(labeled) |->
                               LABEL_SCORES(labeled[i].label) * weights[i]])
      total_weight == SeqSum(weights)
                        + SeqSum([i \in 1..Len(unlabeled) |-> unlabeled[i].score * 2])
  IN IF total_weight = 0 THEN Zero ELSE Frac(total_score, 2 * total_weight)

CrossExaminer_get_source_priority(d, ev) ==
  IF d.temporal_type = "historical" /\ ev.labeled_count > 0 THEN "labeled_db"
  ELSE IF d.temporal_type = "recent" THEN "web"
  ELSE IF ev.labeled_count > 0 THEN "labeled_db"
  ELSE "unlabeled_db"

\* words of three letters or more of the translated claim, less the common ones
KeyEntities(translated_claim) ==
  InScript(IF translated_claim.sinhala THEN "si" ELSE "en", translated_claim.words)

\* the pairs <<found, n>>, n up to 128, for which the double (found / n) * n
\* lies just below found, so that int() of it is found - 1
LossyRatios ==
  {<<15, 22>>, <<13, 23>>, <<15, 26>>, <<31, 39>>, <<23, 43>>, <<31, 43>>,
   <<15, 44>>, <<30, 44>>, <<13, 45>>, <<26, 45>>, <<13, 46>>, <<26, 46>>,
   <<3, 47>>, <<6, 47>>, <<12, 47>>, <<24, 47>>, <<31, 47>>, <<1, 49>>,
   <<2, 49>>, <<4, 49>>, <<8, 49>>, <<16, 49>>, <<27, 49>>, <<32, 49>>,
   <<29, 50>>, <<31, 51>>, <<15, 52>>, <<30, 52>>, <<7, 55>>, <<14, 55>>,
   <<15, 55>>, <<28, 55>>, <<29, 55>>, <<30, 55>>, <<31, 55>>, <<31, 58>>,
   <<29, 67>>, <<58, 67>>, <<11, 69>>, <<22, 69>>, <<44, 69>>, <<63, 69>>,
   <<47, 70>>, <<7, 71>>, <<14, 71>>, <<28, 71>>, <<31, 71>>, <<56, 71>>,
   <<62, 71>>, <<39, 74>>, <<43, 74>>, <<55, 75>>, <<53, 76>>, <<5, 77>>,
   <<10, 77>>, <<20, 77>>, <<39, 77>>, <<40, 77>>, <<31, 78>>, <<45, 78>>,
   <<62, 78>>, <<21, 79>>, <<42, 79>>, <<47, 79>>, <<47, 82>>, <<57, 82>>,
   <<7, 83>>, <<14, 83>>, <<28, 83>>, <<53, 83>>, <<56, 83>>, <<51, 84>>,
   <<59, 84>>, <<49, 85>>, <<57, 85>>, <<23, 86>>, <<31, 86>>, <<46, 86>>,
   <<57, 86>>, <<62, 86>>, <<51, 87>>, <<59, 87>>, <<15, 88>>, <<30, 88>>,
   <<49, 88>>, <<60, 88>>, <<47, 89>>, <<51, 89>>, <<55, 89>>, <<59, 89>>,
   <<63, 89>>, <<13, 90>>, <<26, 90>>, <<49, 90>>, <<52, 90>>, <<63, 90>>,
   <<29, 91>>, <<58, 91>>, <<61, 91>>, <<13, 92>>, <<26, 92>>, <<52, 92>>,
   <<61, 92>>, <<13, 93>>, <<26, 93>>, <<51, 93>>, <<52, 93>>, <<63, 93>>,
   <<3, 94>>, <<6, 94>>, <<12, 94>>, <<24, 94>>, <<31, 94>>, <<48, 94>>,
   <<51, 94>>, <<62, 94>>, <<7, 95>>, <<14, 95>>, <<28, 95>>, <<53, 95>>,
   <<56, 95>>, <<63, 95>>, <<7, 97>>, <<14, 97>>, <<25, 97>>, <<28, 97>>,
   <<31, 97>>, <<50, 97>>, <<53, 97>>, <<56, 97>>, <<59, 97>>, <<62, 97>>,
   <<1, 98>>, <<2, 98>>, <<4, 98>>, <<8, 98>>, <<16, 98>>, <<27, 98>>,
   <<32, 98>>, <<54, 98>>, <<55, 98>>, <<64, 98>>, <<27, 99>>, <<54, 99>>,
   <<59, 99>>, <<29, 100>>, <<57, 100>>, <<58, 100>>, <<29, 101>>,
   <<57, 101>>, <<58, 101>>, <<59, 101>>, <<31, 102>>, <<62, 102>>,
   <<1, 103>>, <<2, 103>>, <<4, 103>>, <<8, 103>>, <<15, 103>>, <<16, 103>>,
   <<30, 103>>, <<31, 103>>, <<32, 103>>, <<60, 103>>, <<61, 103>>,
   <<62, 103>>, <<63, 103>>, <<64, 103>>, <<15, 104>>, <<30, 104>>,
   <<60, 104>>, <<63, 104>>, <<27, 105>>, <<54, 105>>, <<57, 105>>,
   <<1, 107>>, <<2, 107>>, <<4, 107>>, <<7, 107>>, <<8, 107>>, <<14, 107>>,
   <<15, 107>>, <<16, 107>>, <<27, 107>>, <<28, 107>>, <<29, 107>>,
   <<30, 107>>, <<31, 107>>, <<32, 107>>, <<54, 107>>, <<55, 107>>,
   <<56, 107>>, <<57, 107>>, <<58, 107>>, <<59, 107>>, <<60, 107>>,
   <<61, 107>>, <<62, 107>>, <<63, 107>>, <<64, 107>>, <<61, 108>>,
   <<7, 110>>, <<14, 110>>, <<15, 110>>, <<28, 110>>, <<29, 110>>,
   <<30, 110>>, <<31, 110>>, <<56, 110>>, <<58, 110>>, <<60, 110>>,
   <<62, 110>>, <<7, 111>>, <<14, 111>>, <<28, 111>>, <<31, 111>>,
   <<56, 111>>, <<62, 111>>, <<61, 112>>, <<31, 113>>, <<61, 113>>,
   <<62, 113>>, <<63, 115>>, <<31, 116>>, <<59, 116>>, <<62, 116>>,
   <<15, 117>>, <<30, 117>>, <<60, 117>>, <<61, 118>>, <<61, 119>>,
   <<31, 121>>, <<62, 121>>, <<31, 123>>, <<62, 123>>}

\* int(max_overlap * len(all_keywords)) for max_overlap = found / n
CrossExaminer_found_count(found, n) ==
  IF <<found, n>> \in LossyRatios THEN found - 1 ELSE found

\* max_overlap >= 0.25 or found_count >= min_matches, for max_overlap = max_found / n
CrossExaminer_is_relevant(max_found, n) ==
  4 * max_found >= n \/ CrossExaminer_found_count(max_found, n) >= Min(2, n)

CrossExaminer_check_topic_relevance(d, labeled) ==
  LET all_keywords == d.keywords \cup d.english_keywords \cup KeyEntities(d.translated_claim)
      n == Cardinality(all_keywords)
      found == [i \in 1..Len(labeled) |->
                  Cardinality(all_keywords \cap labeled[i].text.words)]
      max_found == SeqMax(found)
  IN IF all_keywords = {} \/ labeled = << >>
       THEN [is_relevant |-> TRUE, overlap_ratio |-> Frac(1, 1), method |-> "default"]
       ELSE [is_relevant |-> CrossExaminer_is_relevant(max_found, n),
             overlap_ratio |-> Frac(max_found, n), method |-> "keyword_overlap"]

\* _generate_recommendation below its zombie test
RecommendationFromLabels(label_analysis, consensus, similarity_level) ==
  LET support_score == label_analysis.support_score
      true_count == label_analysis.true_count
      false_count == label_analysis.false_count
  IN
  IF ~label_analysis.has_labels
    THEN IF similarity_level \in {"high", "medium"} THEN "needs_verification"
         ELSE "unverified"
  ELSE IF consensus.type = "conflict" THEN "needs_verification"
  ELSE IF similarity_level = "high"
    THEN IF AtLeast(support_score, 7, 10) /\ true_count >= 2 THEN "true"
         ELSE IF AtMost(support_score, -7, 10) /\ false_count >= 2 THEN "false"
         ELSE IF AtLeast(support_score, 4, 10) THEN "likely_true"
         ELSE IF AtMost(support_score, -4, 10) THEN "likely_false"
         ELSE "needs_verification"
  ELSE IF similarity_level = "medium"
    THEN IF AtLeast(support_score, 6, 10) THEN "likely_true"
         ELSE IF AtMost(support_score, -6, 10) THEN "likely_false"
         ELSE "needs_verification"       \* has_zombie_risk is never set
  ELSE "unverified"                      \* has_labels holds here

\* a recommendation that does not look at the zombie check
CrossExaminer_recommendation_without_zombie(label_analysis, consensus, zombie_check, similarity_level) ==
  RecommendationFromLabels(label_analysis, consensus, similarity_level)

CrossExaminer_generate_recommendation(label_analysis, consensus, zombie_check, similarity_level) ==
  IF zombie_check.is_zombie THEN "false"
  ELSE RecommendationFromLabels(label_analysis, consensus, similarity_level)

\* in thousandths
CrossExaminer_calculate_confidence(label_analysis, ev) ==
  Min(500 + (IF label_analysis.has_labels THEN 200 ELSE 0)
          + ev.top_similarity * 2
          + (IF ev.labeled_count >= 3 THEN 100 ELSE 0),
      1000)

CrossExaminer_examine(ev, d) ==
  LET labeled == ev.labeled_history
      unlabeled == ev.unlabeled_context
      analysed == CrossExaminer_analyze_labels(labeled)
      zombie_check == CrossExaminer_check_zombie_rumors(labeled, d)
      consensus == CrossExaminer_determine_consensus(analysed)
      relevance == CrossExaminer_check_topic_relevance(d, labeled)
      weighted_score ==
        IF relevance.is_relevant
          THEN CrossExaminer_calculate_weighted_score(labeled, unlabeled)
          ELSE Zero
      label_analysis ==
        IF relevance.is_relevant THEN analysed
        ELSE [analysed EXCEPT !.support_score = Zero, !.has_labels = FALSE]
  IN
  IF zombie_check = Raised("NameError") THEN zombie_check
  ELSE [kind |-> "cross_exam",
        date_analysis |-> CrossExaminer_check_date_consistency(d),
        label_analysis |-> label_analysis,
        zombie_check |-> zombie_check,
        consensus |-> consensus,
        weighted_score |-> weighted_score,
        source_priority |-> CrossExaminer_get_source_priority(d, ev),
        topic_relevance |-> relevance,
        recommendation |-> CrossExaminer_generate_recommendation(
                              label_analysis, consensus, zombie_check, ev.similarity_level),
        confidence |-> CrossExaminer_calculate_confidence(label_analysis, ev)]

(***************************************************************************)
(* HybridVerifier.verify, stage by stage                                   *)
(***************************************************************************)
\* a process whose cache has no backing store
NoBackingStores ==
  /\ CacheInit
  /\ ~redisUp /\ ~pgUp /\ ~POSTGRES_AVAILABLE /\ ~client
  /\ log = NoCall
  /\ ThreadsIdle

InitExam ==
  /\ NoBackingStores
  /\ current_year = 2026
  /\ lang_proc = LangProcAgent_init("openrouter")
  /\ redis_emb = {}
  /\ index = Corpus
  /\ NothingVerified

Decompose(text, translated) ==
  /\ stage = "start"
  /\ decomposed' = ClaimDecomposer_decompose(text, translated, current_year)
  /\ stage' = "decomposed"
  /\ UNCHANGED <<cacheVars, log, tpc, tret, current_year, langVars, held, index, search, evidence, cross_exam,
                 web_analysis, cot_result, verify_result>>

\* answering: the embedding providers that answer; vector_failed: the
\* vector store raises; db, lk, en: what the searches that run return.
\* retrieve has no handler around the vector search, so its error ends the call.
Retrieve(answering, vector_failed, db, lk, en) ==
  LET emb == LangProcAgent_get_embeddings(lang_proc, Mem, redis_emb,
                                          decomposed.vector_query, answering)
  IN
  /\ stage = "decomposed"
  /\ IF vector_failed THEN db = << >> /\ lk = << >> /\ en = << >> ELSE TRUE
  /\ IF NeedsWeb(decomposed, db) THEN TRUE ELSE lk = << >>
  /\ IF decomposed.english_web_query # "" THEN TRUE ELSE en = << >>
  /\ lang_proc' = emb.lang_proc
  /\ redis_emb' = emb.redis_emb
  /\ search' = [embedding |-> emb.source, vector_failed |-> vector_failed,
                db |-> db, lk |-> lk, en |-> en]
  /\ IF vector_failed
       THEN evidence' = Raised("vector store") /\ stage' = "failed"
       ELSE evidence' = HybridRetriever_retrieve(decomposed, db, lk, en)
              /\ stage' = "retrieved"
  /\ UNCHANGED <<cacheVars, log, tpc, tret, current_year, index, decomposed, cross_exam,
                 web_analysis, cot_result, verify_result, held>>

\* an examine that empties the labeled list it was handed
ExamineConsumingLabeled(ev, d) ==
  [evidence |-> [ev EXCEPT !.labeled_history = << >>], decomposed |-> d]

\* the two arguments of examine once it has returned: it reads them with
\* .get() and writes only to dicts it made itself
ExamineArguments(ev, d) == [evidence |-> ev, decomposed |-> d]

Examine ==
  /\ stage = "retrieved"
  /\ cross_exam' = CrossExaminer_examine(evidence, decomposed)
  /\ evidence' = ExamineArguments(evidence, decomposed).evidence
  /\ decomposed' = ExamineArguments(evidence, decomposed).decomposed
  /\ stage' = "examined"
  /\ UNCHANGED <<cacheVars, log, tpc, tret, current_year, langVars, held, index, search,
                 web_analysis, cot_result, verify_result>>

\* a second call of examine with the same two objects
ExamineAgain ==
  /\ stage = "examined"
  /\ cross_exam' = CrossExaminer_examine(evidence, decomposed)
  /\ evidence' = ExamineArguments(evidence, decomposed).evidence
  /\ decomposed' = ExamineArguments(evidence, decomposed).decomposed
  /\ stage' = "examined twice"
  /\ UNCHANGED <<cacheVars, log, tpc, tret, current_year, langVars, held, index, search,
                 web_analysis, cot_result, verify_result>>

\* the inputs of a step are drawn once the step is due
DecomposeAny ==
  /\ stage = "start"
  /\ \E text \in ClaimTexts, translated \in BOOLEAN : Decompose(text, translated)

RetrieveAny ==
  /\ stage = "decomposed"
  /\ \E answering \in SUBSET Providers, vector_failed \in BOOLEAN,
        db \in SearchResults, lk \in WebResults, en \in WebResults :
       Retrieve(answering, vector_failed, db, lk, en)

\* claim texts with more kinds of numbers in them
DatedTexts ==
  [words : {{}, Vocabulary}, sinhala : BOOLEAN,
   years : {{}, {1999}, {2019}, {2023}, {2024}, {2026}, {2029}, {2031},
            {2019, 2026}, {2009, 2024}},
   recent_keyword : BOOLEAN]

InitDecompose ==
  /\ NoBackingStores
  /\ PipelineIdle

DecomposeDated ==
  /\ stage = "start"
  /\ \E text \in DatedTexts, translated \in BOOLEAN : Decompose(text, translated)

SpecDecompose == InitDecompose /\ [][DecomposeDated]_vars

NextExam ==
  \/ DecomposeAny
  \/ RetrieveAny
  \/ Examine
  \/ ExamineAgain

SpecExam == InitExam /\ [][NextExam]_vars

(***************************************************************************)
(* RetrievalAgent                                                          *)
(***************************************************************************)
\* documents of the "live_news" namespace; an article can be indexed in
\* both namespaces
LiveNews ==
  {Doc(1, "true", 95, "BBC Sinhala", OnTopic),
   Doc(12, "", 88, "Ada Derana", OnTopic)}

NewsResults ==
  {r \in SeqsUpTo(LiveNews, MaxDocs) :
     \A i, j \in 1..Len(r) : i < j => r[i].id # r[j].id /\ r[i].score >= r[j].score}

\* doc put into a list sorted by descending score, behind its equals
RECURSIVE InsertByScore(_, _)
InsertByScore(sorted, doc) ==
  IF sorted = << >> THEN <<doc>>
  ELSE IF Head(sorted).score >= doc.score
    THEN <<Head(sorted)>> \o InsertByScore(Tail(sorted), doc)
  ELSE <<doc>> \o sorted

\* list.sort(key=lambda x: x['score'], reverse=True), which is stable
RECURSIVE SortByScore(_)
SortByScore(q) ==
  IF q = << >> THEN << >>
  ELSE InsertByScore(SortByScore(SubSeq(q, 1, Len(q) - 1)), q[Len(q)])

FirstK(q, k) == SubSeq(q, 1, Min(k, Len(q)))

\* failed: one of the two searches raises
RetrievalAgent_retrieve_evidence(use_pinecone, failed, dataset_results, news_results, top_k) ==
  IF use_pinecone /\ ~failed
    THEN FirstK(SortByScore(dataset_results \o news_results), top_k)
    ELSE << >>

InitRetrievalAgent ==
  /\ NoBackingStores
  /\ current_year = 2026
  /\ lang_proc = LangProcAgent_init("auto")
  /\ redis_emb = {}
  /\ index = Corpus
  /\ NothingVerified

\* retrieve_evidence(claim_text, top_k); search keeps what the two searches
\* returned and evidence the list the agent returns
RetrieveEvidence(text, top_k, answering, use_pinecone, failed, dataset_results, news_results) ==
  LET emb == LangProcAgent_get_embeddings(lang_proc, Mem, redis_emb, text, answering)
      searched == use_pinecone /\ ~failed
  IN
  /\ stage = "start"
  /\ Len(dataset_results) <= top_k
  /\ Len(news_results) <= top_k
  /\ IF searched THEN TRUE ELSE dataset_results = << >> /\ news_results = << >>
  /\ IF use_pinecone THEN TRUE ELSE ~failed
  /\ lang_proc' = emb.lang_proc
  /\ redis_emb' = emb.redis_emb
  /\ search' = [embedding |-> emb.source, use_pinecone |-> use_pinecone,
                failed |-> failed, top_k |-> top_k,
                dataset |-> dataset_results, live_news |-> news_results]
  /\ evidence' = RetrievalAgent_retrieve_evidence(use_pinecone, failed, dataset_results,
                                                   news_results, top_k)
  /\ stage' = "evidence retrieved"
  /\ UNCHANGED <<cacheVars, log, tpc, tret, current_year, index, decomposed, cross_exam,
                 web_analysis, cot_result, verify_result, held>>

RetrieveEvidenceAny ==
  /\ stage = "start"
  /\ \E text \in {t \in ClaimTexts : t.words = Vocabulary /\ t.years = {} /\ ~t.recent_keyword},
        top_k \in 1..MaxDocs,
        answering \in SUBSET Providers, use_pinecone \in BOOLEAN, failed \in BOOLEAN,
        dataset_results \in SearchResults, news_results \in NewsResults :
       RetrieveEvidence(text, top_k, answering, use_pinecone, failed,
                        dataset_results, news_results)

SpecRetrievalAgent == InitRetrievalAgent /\ [][RetrieveEvidenceAny]_vars

(***************************************************************************)
(* WebAnalyzer                                                             *)
(***************************************************************************)
MaxWiki == 2        \* summaries one Wikipedia lookup brings back

\* what the Wikipedia lookup brings back: summaries that confirm the claim
\* and summaries that call it a myth; none when the requests fail
WikiSummaries ==
  {r \in SeqsUpTo({"confirmed", "myth"}, MaxWiki) :
     \A i, j \in 1..Len(r) : (i < j /\ r[i] = "myth") => r[j] = "myth"}

\* the keyword test of _detect_stance on a text that covers the claim's words
StanceOfText(text) ==
  CASE text = "confirmed" -> "supports"
    [] text = "myth"      -> "refutes"
    [] OTHER              -> "neutral"

\* a claim without English words shares no word with an English text
WebAnalyzer_detect_stance(claim, text) ==
  IF claim.sinhala \/ claim.words = {} THEN "irrelevant" ELSE StanceOfText(text)

WebEvidence(source, stance, is_wikipedia) ==
  [source |-> source, stance |-> stance, is_wikipedia |-> is_wikipedia]

WebAnalyzer_search_wikipedia(translated_claim, summaries) ==
  LET found == [i \in 1..Len(summaries) |->
                  WebEvidence("Wikipedia",
                              WebAnalyzer_detect_stance(translated_claim, summaries[i]), TRUE)]
  IN SelectSeq(found, LAMBDA e : e.stance # "irrelevant")

\* "wikipedia" in url.lower()
IsWikipedia(url) == url = "https://en.wikipedia.org/wiki/Fuel"

WebAnalyzer_analyze_web_results(translated_claim, web_results) ==
  LET with_body == SelectSeq(web_results, LAMBDA res : res.body # "")
      found == [i \in 1..Len(with_body) |->
                  WebEvidence(with_body[i].title,
                              WebAnalyzer_detect_stance(translated_claim, with_body[i].body),
                              IsWikipedia(with_body[i].href))]
  IN SelectSeq(found, LAMBDA e : e.stance # "irrelevant")

CountStance(q, stance) == Cardinality({i \in 1..Len(q) : q[i].stance = stance})

Max(a, b) == IF a > b THEN a ELSE b

\* confidence_boost is in hundredths
WebAnalyzer_aggregate_evidence(ev) ==
  IF ev = << >>
    THEN [kind |-> "web_analysis", overall_stance |-> "neutral", confidence_boost |-> 0,
          support_count |-> 0, refute_count |-> 0, has_wikipedia |-> FALSE,
          verdict_override |-> "None", evidence |-> << >>]
    ELSE
      LET support_count == CountStance(ev, "supports")
          refute_count == CountStance(ev, "refutes")
          wiki_supports == \E i \in 1..Len(ev) : ev[i].is_wikipedia /\ ev[i].stance = "supports"
          wiki_refutes == \E i \in 1..Len(ev) : ev[i].is_wikipedia /\ ev[i].stance = "refutes"
          strong_support == support_count >= 3 \/ wiki_supports
          strong_refute == ~strong_support /\ (refute_count >= 3 \/ wiki_refutes)
      IN [kind |-> "web_analysis",
          overall_stance |->
            IF support_count > refute_count + 1 THEN "supports"
            ELSE IF refute_count > support_count + 1 THEN "refutes"
            ELSE "neutral",
          confidence_boost |->
            IF strong_support
              THEN Min(35, 15 + support_count * 5) + (IF wiki_supports THEN 10 ELSE 0)
            ELSE IF strong_refute
              THEN Max(-35, -15 - refute_count * 5) - (IF wiki_refutes THEN 10 ELSE 0)
            ELSE IF support_count > refute_count THEN 10 + support_count * 3
            ELSE IF refute_count > support_count THEN -10 - refute_count * 3
            ELSE 0,
          support_count |-> support_count,
          refute_count |-> refute_count,
          has_wikipedia |-> (wiki_supports \/ wiki_refutes),
          verdict_override |->
            IF strong_support /\ wiki_supports /\ support_count >= 2 THEN "likely_true"
            ELSE IF strong_refute /\ wiki_refutes /\ refute_count >= 2 THEN "likely_false"
            ELSE "None",
          evidence |-> ev]

WebAnalyzer_analyze(translated_claim, web_results, summaries) ==
  WebAnalyzer_aggregate_evidence(
    WebAnalyzer_search_wikipedia(translated_claim, summaries)
      \o WebAnalyzer_analyze_web_results(translated_claim, web_results))

(***************************************************************************)
(* CoTReasoner.  A confidence is in thousandths.                           *)
(***************************************************************************)
\* what the model answers: its TOPIC_MATCH, VERDICT and CONFIDENCE lines
LLMResponses ==
  [kind : {"response"}, topic_match : BOOLEAN,
   verdict : {"true", "likely_false", "unverified"}, confidence : {20, 90, 99}]

\* text without a TOPIC_MATCH, VERDICT or CONFIDENCE line
Unparseable == [kind |-> "text"]

\* what _call_llm does: it answers in the format asked for or in some other
\* text, it returns the null content of the API's message, or it raises (a
\* status other than 200, a timeout, a body without choices)
LLMOutcomes == LLMResponses \cup {Unparseable, None, Raised("LLM")}

CoTReasoner_normalize_verdict(verdict) ==
  CASE verdict \in {"true", "likely_true"}            -> "true"
    [] verdict \in {"false", "likely_false"}          -> "false"
    [] verdict \in {"misleading", "partially true"}   -> "misleading"
    [] verdict = "needs_verification"                 -> "needs_verification"
    [] OTHER                                          -> "unverified"

\* no line of the text sets a field, so the defaults of the parser stay
CoTReasoner_parse_response(response) ==
  IF response = Unparseable
    THEN [verdict |-> "unverified", confidence |-> 500, topic_match |-> TRUE,
          fallback |-> FALSE, raw_response |-> response]
  ELSE IF ~response.topic_match
    THEN [verdict |-> "unverified", confidence |-> 300, topic_match |-> FALSE,
          fallback |-> FALSE, raw_response |-> response]
    ELSE [verdict |-> CoTReasoner_normalize_verdict(response.verdict),
          confidence |-> response.confidence * 10, topic_match |-> TRUE,
          fallback |-> FALSE, raw_response |-> response]

CoTReasoner_fallback_reasoning(ce) ==
  [verdict |-> ce.recommendation, confidence |-> ce.confidence, topic_match |-> TRUE,
   fallback |-> TRUE, raw_response |-> None]

\* None.strip() raises inside the try block, like an error of _call_llm
CoTReasoner_reason(ce, outcome) ==
  IF outcome.kind \in {"raised", "None"} THEN CoTReasoner_fallback_reasoning(ce)
  ELSE CoTReasoner_parse_response(outcome)

(***************************************************************************)
(* HybridVerifier                                                          *)
(***************************************************************************)
\* a final verdict that lets a likely_false override pass on the refuting count
HybridVerifier_verdict_gated_by_own_count(d, ev, ce, cot, wa) ==
  LET confidence_boost == wa.confidence_boost * 10
      boosted == IF confidence_boost # 0
                   THEN Max(100, Min(950, cot.confidence + confidence_boost))
                   ELSE cot.confidence
      override == \/ wa.verdict_override = "likely_true" /\ wa.support_count >= 2
                  \/ wa.verdict_override = "likely_false" /\ wa.refute_count >= 2
      verdict_label == IF override THEN wa.verdict_override ELSE cot.verdict
      confidence == IF override
                      THEN Max(boosted, IF wa.has_wikipedia THEN 850 ELSE 750)
                      ELSE boosted
  IN [kind |-> "result",
      claim |-> [original |-> d.original_claim, temporal_type |-> d.temporal_type],
      evidence |-> [labeled_count |-> ev.labeled_count,
                    unlabeled_count |-> ev.unlabeled_count,
                    top_similarity |-> ev.top_similarity,
                    similarity_level |-> ev.similarity_level],
      web_analysis |-> [stance |-> wa.overall_stance,
                        support_count |-> wa.support_count,
                        refute_count |-> wa.refute_count,
                        has_wikipedia |-> wa.has_wikipedia,
                        confidence_boost |-> wa.confidence_boost],
      cross_examination |-> [weighted_score |-> ce.weighted_score,
                             consensus |-> ce.consensus.type,
                             zombie_detected |-> ce.zombie_check.is_zombie,
                             source_priority |-> ce.source_priority],
      verdict |-> [label |-> verdict_label, confidence |-> confidence]]

HybridVerifier_generate_final_verdict(d, ev, ce, cot, wa) ==
  LET confidence_boost == wa.confidence_boost * 10
      boosted == IF confidence_boost # 0
                   THEN Max(100, Min(950, cot.confidence + confidence_boost))
                   ELSE cot.confidence
      override == wa.verdict_override # "None" /\ wa.support_count >= 2
      verdict_label == IF override THEN wa.verdict_override ELSE cot.verdict
      confidence == IF override
                      THEN Max(boosted, IF wa.has_wikipedia THEN 850 ELSE 750)
                      ELSE boosted
  IN [kind |-> "result",
      claim |-> [original |-> d.original_claim, temporal_type |-> d.temporal_type],
      evidence |-> [labeled_count |-> ev.labeled_count,
                    unlabeled_count |-> ev.unlabeled_count,
                    top_similarity |-> ev.top_similarity,
                    similarity_level |-> ev.similarity_level],
      web_analysis |-> [stance |-> wa.overall_stance,
                        support_count |-> wa.support_count,
                        refute_count |-> wa.refute_count,
                        has_wikipedia |-> wa.has_wikipedia,
                        confidence_boost |-> wa.confidence_boost],
      cross_examination |-> [weighted_score |-> ce.weighted_score,
                             consensus |-> ce.consensus.type,
                             zombie_detected |-> ce.zombie_check.is_zombie,
                             source_priority |-> ce.source_priority],
      verdict |-> [label |-> verdict_label, confidence |-> confidence]]

\* result["from_cache"] = flag
WithFromCache(r, flag) ==
  [f \in DOMAIN r \cup {"from_cache"} |-> IF f = "from_cache" THEN flag ELSE r[f]]

\* the texts of the two claims the cache knows
TextOf(claim) ==
  IF claim = "claim one"
    THEN [words |-> Vocabulary, sinhala |-> TRUE, years |-> {}, recent_keyword |-> FALSE]
    ELSE [words |-> Vocabulary, sinhala |-> FALSE, years |-> {2019}, recent_keyword |-> FALSE]

ClaimOf(text) == CHOOSE claim \in Claims : TextOf(claim) = text

\* a small index
FewDocuments == {doc \in Corpus : doc.id \in {1, 4}}

InitVerify ==
  /\ NoBackingStores
  /\ current_year = 2026
  /\ lang_proc = LangProcAgent_init("auto")
  /\ redis_emb = {}
  /\ index = FewDocuments
  /\ NothingVerified

\* cached_result["from_cache"] = True on a hit, as the tiers see it: Redis and
\* PostgreSQL made a new object for the caller, the in-process maps returned
\* (and ShortTermMemory.set kept) the object itself
HybridVerifier_mark_from_cache(m, claim, looked) ==
  LET key == ShortTermMemory_get_key(claim)
      claim_hash == LongTermMemory_get_hash(claim)
      marked == WithFromCache(looked.ret, TRUE)
      m1 == looked.m
      m2 == IF ~m1.client THEN [m1 EXCEPT !.fallback_cache[key] = marked] ELSE m1
  IN IF looked.tier = "long" /\ m1.conn # "open"
       THEN [m2 EXCEPT !.fallback_storage[claim_hash] = marked]
       ELSE m2

\* steps 0 and 1 of verify: the cache, then the decomposition
VerifyStart(claim, use_cache, translated) ==
  /\ stage = "start"
  /\ AccessRoom(Mem, claim)
  /\ LET looked == IF use_cache THEN MemoryManager_get_cached_result(Mem, claim)
                   ELSE [m |-> Mem, ret |-> None, tier |-> "miss"]
         after == HybridVerifier_mark_from_cache(Mem, claim, looked)
         key == ShortTermMemory_get_key(claim)
     IN IF Truthy(looked.ret)
          THEN /\ Install(after)
               /\ verify_result' = WithFromCache(looked.ret, TRUE)
               /\ held' = IF held = None THEN None
                          ELSE IF held.claim = claim /\ held.in_map
                            THEN [held EXCEPT !.result = after.fallback_cache[key]]
                          ELSE held
               /\ stage' = "done"
               /\ UNCHANGED decomposed
          ELSE /\ Install(looked.m)
               /\ decomposed' = ClaimDecomposer_decompose(TextOf(claim), translated,
                                                          current_year)
               /\ stage' = "decomposed"
               /\ UNCHANGED <<verify_result, held>>
  /\ UNCHANGED <<log, tpc, tret, current_year, langVars, index, search, evidence, cross_exam,
                 web_analysis, cot_result>>

\* step 4; verify ends at step 3 when examine raises
AnalyzeWeb(summaries) ==
  /\ stage = "examined"
  /\ cross_exam.kind = "cross_exam"
  /\ web_analysis' = WebAnalyzer_analyze(decomposed.translated_claim,
                                         evidence.web_results, summaries)
  /\ stage' = "analyzed"
  /\ UNCHANGED <<cacheVars, log, tpc, tret, current_year, langVars, held, index, decomposed, search,
                 evidence, cross_exam, cot_result, verify_result>>

\* steps 5 and 6
Reason(outcome) ==
  /\ stage = "analyzed"
  /\ cot_result' = CoTReasoner_reason(cross_exam, outcome)
  /\ stage' = "reasoned"
  /\ UNCHANGED <<cacheVars, log, tpc, tret, current_year, langVars, held, index, decomposed, search,
                 evidence, cross_exam, web_analysis, verify_result>>

\* step 7 and the store; with the in-process map the stored object is the
\* returned one, so it carries from_cache too
GenerateVerdict ==
  /\ stage = "reasoned"
  /\ LET claim == ClaimOf(decomposed.original_claim)
         final == HybridVerifier_generate_final_verdict(
                    decomposed, evidence, cross_exam, cot_result, web_analysis)
         returned == WithFromCache(final, FALSE)
         stored == MemoryManager_store_result(Mem, claim, final).m
         key == ShortTermMemory_get_key(claim)
     IN /\ AccessRoom(Mem, claim)
        /\ Install(IF Mem.client THEN stored
                   ELSE [stored EXCEPT !.fallback_cache[key] = returned])
        /\ verify_result' = returned
        /\ held' = [claim |-> claim, result |-> returned, in_map |-> ~Mem.client]
  /\ stage' = "done"
  /\ UNCHANGED <<log, tpc, tret, current_year, langVars, index, decomposed, search, evidence,
                 cross_exam, web_analysis, cot_result>>

VerifyStartAny ==
  /\ stage = "start"
  /\ \E claim \in Claims, use_cache \in BOOLEAN, translated \in BOOLEAN :
       VerifyStart(claim, use_cache, translated)

AnalyzeWebAny ==
  /\ stage = "examined"
  /\ \E summaries \in WikiSummaries : AnalyzeWeb(summaries)

ReasonAny ==
  /\ stage = "analyzed"
  /\ \E outcome \in LLMOutcomes : Reason(outcome)

NextVerify ==
  \/ VerifyStartAny
  \/ RetrieveAny
  \/ Examine
  \/ AnalyzeWebAny
  \/ ReasonAny
  \/ GenerateVerdict

SpecVerify == InitVerify /\ [][NextVerify]_vars

(***************************************************************************)
(* verify called again and again on one HybridVerifier                     *)
(***************************************************************************)
InitRepeat ==
  /\ CacheInit
  /\ log = NoCall
  /\ ThreadsIdle
  /\ current_year = 2026
  /\ lang_proc = LangProcAgent_init("auto")
  /\ redis_emb = {}
  /\ index = FewDocuments
  /\ NothingVerified

VerifyOne ==
  /\ stage = "start"
  /\ \E use_cache \in BOOLEAN : VerifyStart("claim one", use_cache, TRUE)

RetrieveFew ==
  /\ stage = "decomposed"
  /\ \E db \in {r \in SearchResults : Len(r) <= 1} :
       Retrieve(Providers, FALSE, db, << >>, << >>)

AnalyzeNoWiki ==
  /\ stage = "examined"
  /\ AnalyzeWeb(<< >>)

ReasonFew ==
  /\ stage = "analyzed"
  /\ \E outcome \in {Raised("LLM"),
                       [kind |-> "response", topic_match |-> TRUE,
                        verdict |-> "true", confidence |-> 90]} : Reason(outcome)

\* verify has returned; the caller keeps the result and the next call starts
\* with new locals
VerifyReturns ==
  /\ stage = "done"
  /\ stage' = "start"
  /\ decomposed' = None
  /\ search' = None
  /\ evidence' = None
  /\ cross_exam' = None
  /\ web_analysis' = None
  /\ cot_result' = None
  /\ verify_result' = None
  /\ UNCHANGED <<cacheVars, log, tpc, tret, current_year, langVars, held, index>>

NextRepeat ==
  \/ VerifyOne
  \/ RetrieveFew
  \/ Examine
  \/ AnalyzeNoWiki
  \/ ReasonFew
  \/ GenerateVerdict
  \/ VerifyReturns
  \/ RedisFlips
  \/ PostgresFlips
  \/ ConnectionCloses

SpecRepeat == InitRepeat /\ [][NextRepeat]_vars

(***************************************************************************)
(* Claims about the cache                                                  *)
(***************************************************************************)
Settled(mode) == mode = "healthy" \/ mode = "fallback"

C2_LongHitBackfills ==
  (log.op = "get" /\ log.tier = "long")
  => /\ ShortEntry(Mem, log.claim) # None
     /\ MemoryManager_get_cached_result(Mem, log.claim).tier = "short"

\* C3: after store_result(c, r) each of the two tiers holds the entry
\* written by that call.
C3_LastWriteWins ==
  log.op = "store"
  => /\ Holds(ShortEntry(Mem, log.claim), log.arg)
     /\ Holds(LongEntry(Mem, log.claim), log.arg)

\* C4: while a tier's backing store is unreachable, at startup or later, the
\* tier works on its in-process map: what store_result wrote to the tier is
\* what a read of that tier returns.
C4_DegradedWriteThenRead ==
  /\ (log.op = "store" /\ ~redisUp)
        => Holds(ShortTermMemory_get(Mem, log.claim), log.arg)
  /\ (log.op = "store" /\ ~pgUp)
        => Holds(LongTermMemory_get(Mem, log.claim).ret, log.arg)

\* C5: with two concurrent store_result calls for one claim text and
\* concurrent get_cached_result calls, every get returns nothing or one of
\* the stored results, and once both stores are complete the two tiers hold
\* the same result for the claim.
C5_ConcurrentStoresAgree ==
  /\ tret = None \/ tret \in Results
  /\ \A c \in Claims :
        (\A t \in Threads : tpc[t].pc = "done" /\ tpc[t].claim = c)
        => /\ ShortEntry(Mem, c) # None
           /\ LongEntry(Mem, c) # None
           /\ VerdictOf(ShortEntry(Mem, c)) = VerdictOf(LongEntry(Mem, c))

(***************************************************************************)
(* Claims about the cross-examination                                      *)
(***************************************************************************)
Examined == stage = "examined" /\ cross_exam.kind = "cross_exam"

\* C6: whenever examine reports a topic mismatch, the weighted score it
\* returns is 0 and its recommendation is neither "true" nor "false".
C6_TopicMismatchOverride ==
  (Examined /\ ~cross_exam.topic_relevance.is_relevant)
    => /\ cross_exam.weighted_score = Zero
       /\ cross_exam.recommendation \notin {"true", "false"}

TrueLike(doc)  == doc.label \in {"true", "real", "verified"}
FalseLike(doc) == doc.label \in {"false", "fake"}

\* C8: when the labeled evidence holds a true-like and a false-like item and
\* the zombie check does not fire, examine returns consensus "conflict" and
\* recommendation "needs_verification".
C8_ConflictHandling ==
  (/\ Examined
   /\ \E i \in 1..Len(evidence.labeled_history) : TrueLike(evidence.labeled_history[i])
   /\ \E i \in 1..Len(evidence.labeled_history) : FalseLike(evidence.labeled_history[i])
   /\ ~cross_exam.zombie_check.is_zombie)
    => /\ cross_exam.consensus.type = "conflict"
       /\ cross_exam.recommendation = "needs_verification"

(***************************************************************************)
(* Claims about the retrieval                                              *)
(***************************************************************************)
Retrieved == stage \in {"retrieved", "examined"}

Items(q) == {q[i] : i \in 1..Len(q)}

\* C10: labeled_history and unlabeled_context of a returned bundle are
\* disjoint, together they hold every item the vector search and the web
\* searches returned, and an item is in labeled_history exactly when its
\* label is one of true, false, misleading, fake.
C10_PartitionInvariant ==
  Retrieved =>
    LET labeled == Items(evidence.labeled_history)
        unlabeled == Items(evidence.unlabeled_context)
        web == MarkTranslated(search.lk, FALSE) \o MarkTranslated(search.en, TRUE)
        found == Items(search.db) \cup {FormatWeb(web[i]) : i \in 1..Len(web)}
    IN /\ labeled \cap unlabeled = {}
       /\ labeled \cup unlabeled = found
       /\ \A item \in found :
            item \in labeled <=> item.label \in {"true", "false", "misleading", "fake"}

(***************************************************************************)
(* Claims about the verdict                                                *)
(***************************************************************************)
\* C9: when retrieval yields no labeled and no unlabeled evidence, the
\* verdict verify produces has confidence at most 0.3 and label unverified
\* or likely_false, however the reasoning call and the web analysis end.
C9_NoEvidenceFloor ==
  (/\ stage = "done"
   /\ evidence # None
   /\ evidence.labeled_history = << >>
   /\ evidence.unlabeled_context = << >>)
    => /\ verify_result.verdict.confidence <= 300
       /\ verify_result.verdict.label \in {"unverified", "likely_false"}

(***************************************************************************)
(* Claims about expiry                                                     *)
(***************************************************************************)
\* C17: an entry ShortTermMemory.set wrote without a ttl is no longer
\* returned by ShortTermMemory.get once 3600 seconds have passed since the
\* write, on Redis and on the in-process map alike; the passing of time
\* removes nothing from the long-term tier.
C17_TTLDiscipline ==
  /\ [](\A claim \in Claims :
          ShortTermMemory_get_key(claim) \in Expired(Mem, clock)
            => ShortTermMemory_get(Mem, claim) = None)
  /\ [][clock' # clock => UNCHANGED <<pg, fallback_storage>>]_vars

(***************************************************************************)
(* Claims about the recommendation of CrossExaminer.examine                *)
(***************************************************************************)
\* C11: with no labeled evidence examine recommends "check_web" when there is
\* unlabeled or web evidence and "unverified" when there is none; for a general
\* claim it also reports topic_relevant true and consensus "no_labels".
C11_NoLabelRecommendation ==
  (Examined /\ evidence.labeled_history = << >>)
    => /\ cross_exam.recommendation =
            IF evidence.unlabeled_context # << >> THEN "check_web" ELSE "unverified"
       /\ decomposed.temporal_type = "general"
            => /\ cross_exam.topic_relevance.is_relevant
               /\ cross_exam.consensus.type = "no_labels"

\* the first labeled item the zombie check stops at is old true news
RecycledFirst(labeled, i) ==
  /\ labeled[i].label \in {"true", "real"}
  /\ labeled[i].score >= 85
  /\ labeled[i].text.years # {}
  /\ \A y \in labeled[i].text.years : y < current_year - 1
  /\ \A j \in 1..(i - 1) :
       /\ ~(labeled[j].label \in {"false", "fake"} /\ labeled[j].score >= 90)
       /\ ~(labeled[j].label \in {"true", "real"} /\ labeled[j].score >= 85)

\* C12: for a recent claim whose labeled evidence holds an item labeled true
\* with similarity 0.85 or more and only years more than one year old in its
\* text, and no known-false match before it, examine returns a result with
\* is_zombie true, type "recycled_news" and recommendation "false".
C12_RecycledNews ==
  (/\ stage = "examined"
   /\ decomposed.temporal_type = "recent"
   /\ \E i \in 1..Len(evidence.labeled_history) :
        RecycledFirst(evidence.labeled_history, i))
    => /\ cross_exam.kind = "cross_exam"
       /\ cross_exam.zombie_check.is_zombie
       /\ cross_exam.zombie_check.type = "recycled_news"
       /\ cross_exam.recommendation = "false"

\* C13: when the zombie check has not fired, the medium tier yields only
\* likely_true (support 0.6 or more), likely_false (support -0.6 or less) or
\* needs_verification, and the low and none tiers yield only "unverified" or
\* "check_web".
C13_TierGating ==
  (Examined /\ ~cross_exam.zombie_check.is_zombie)
    => /\ evidence.similarity_level = "medium"
            => /\ cross_exam.recommendation
                    \in {"likely_true", "likely_false", "needs_verification"}
               /\ cross_exam.recommendation = "likely_true"
                    => AtLeast(cross_exam.label_analysis.support_score, 6, 10)
               /\ cross_exam.recommendation = "likely_false"
                    => AtMost(cross_exam.label_analysis.support_score, -6, 10)
       /\ evidence.similarity_level \in {"low", "none"}
            => cross_exam.recommendation \in {"unverified", "check_web"}

\* the recommendation of the high tier as a function of a score
HighTierVerdict(score, true_count, false_count) ==
  IF AtLeast(score, 7, 10) /\ true_count >= 2 THEN "true"
  ELSE IF AtMost(score, -7, 10) /\ false_count >= 2 THEN "false"
  ELSE IF AtLeast(score, 4, 10) THEN "likely_true"
  ELSE IF AtMost(score, -4, 10) THEN "likely_false"
  ELSE "needs_verification"

\* C19: at the high tier, with labeled, topic-relevant, non-conflicting
\* evidence and no zombie, the recommendation is the one the thresholds
\* 0.7 / 0.4 give for the weighted_score that examine returns.
C19_HighTierByWeightedScore ==
  (/\ Examined
   /\ evidence.similarity_level = "high"
   /\ evidence.labeled_history # << >>
   /\ cross_exam.topic_relevance.is_relevant
   /\ cross_exam.consensus.type # "conflict"
   /\ ~cross_exam.zombie_check.is_zombie)
    => cross_exam.recommendation =
         HighTierVerdict(cross_exam.weighted_score,
                         cross_exam.label_analysis.true_count,
                         cross_exam.label_analysis.false_count)

(***************************************************************************)
(* Claims about the weighted score                                         *)
(***************************************************************************)
Abs(n) == IF n < 0 THEN -n ELSE n

Sign(n) == IF n < 0 THEN -1 ELSE IF n > 0 THEN 1 ELSE 0

HasBundle == stage \in {"retrieved", "examined", "examined twice"}

ScoreWith == CrossExaminer_calculate_weighted_score(
               evidence.labeled_history, evidence.unlabeled_context)

ScoreWithout == CrossExaminer_calculate_weighted_score(evidence.labeled_history, << >>)

\* C20: _calculate_weighted_score returns a value in [-1, 1], 0 when the
\* total weight is zero, and unlabeled items count in the denominator only:
\* against the score of the labeled items alone they never change the sign
\* and never increase the magnitude.
C20_WeightedScoreBounds ==
  HasBundle =>
    /\ ScoreWith.den > 0
    /\ AtLeast(ScoreWith, -1, 1) /\ AtMost(ScoreWith, 1, 1)
    /\ (evidence.labeled_history = << >> /\ evidence.unlabeled_context = << >>)
         => ScoreWith = Zero
    /\ Sign(ScoreWith.num) \in {0, Sign(ScoreWithout.num)}
    /\ Abs(ScoreWith.num) * ScoreWithout.den <= Abs(ScoreWithout.num) * ScoreWith.den

\* a bundle in which web items dilute a non-zero score of labeled items
C20_Witness ==
  /\ HasBundle
  /\ evidence.labeled_history # << >>
  /\ evidence.unlabeled_context # << >>
  /\ ScoreWith.num # 0
  /\ Abs(ScoreWith.num) * ScoreWithout.den < Abs(ScoreWithout.num) * ScoreWith.den

Reasoned == stage \in {"reasoned", "done"} /\ cot_result # None

\* C14: when the LLM output is missing, the call fails or times out, or the
\* text cannot be parsed into a verdict, reason returns
\* cross_exam.recommendation as verdict and cross_exam.confidence as
\* confidence.
C14_LLMFallback ==
  (Reasoned /\ (cot_result.fallback \/ cot_result.raw_response = Unparseable))
    => /\ cot_result.verdict = cross_exam.recommendation
       /\ cot_result.confidence = cross_exam.confidence

Searched == search # None

\* C15: when every embedding provider fails for the query text, retrieve ends
\* with the error EmbeddingUnavailable and the vector store is not searched:
\* no retrieval runs on a vector that no provider produced.
C15_EmbeddingUnavailable ==
  (Searched /\ search.embedding = "random")
    => /\ stage = "failed"
       /\ evidence = Raised("EmbeddingUnavailable")

\* C16: when the search of the vector store raises, retrieve returns a
\* bundle with empty labeled_history and unlabeled_context and
\* similarity_level "none", and verify goes on.
C16_VectorSourceFailure ==
  (Searched /\ search.vector_failed)
    => /\ stage # "failed"
       /\ evidence.labeled_history = << >>
       /\ evidence.unlabeled_context = << >>
       /\ evidence.similarity_level = "none"

(***************************************************************************)
(* Claims about topic relevance                                            *)
(***************************************************************************)
\* K: the claim's keywords, its translated keywords and the significant
\* words of the translated claim
ClaimKeywords ==
  decomposed.keywords \cup decomposed.english_keywords
    \cup KeyEntities(decomposed.translated_claim)

KeywordsIn(doc) == Cardinality(ClaimKeywords \cap doc.text.words)

\* C21: _check_topic_relevance returns is_relevant = true exactly when K is
\* empty, or there is no labeled evidence, or some labeled item contains at
\* least 25% of K or at least min(2, |K|) keywords of K.
C21_TopicRelevanceGate ==
  Examined =>
    (cross_exam.topic_relevance.is_relevant
       <=> \/ ClaimKeywords = {}
           \/ evidence.labeled_history = << >>
           \/ \E i \in 1..Len(evidence.labeled_history) :
                LET k == KeywordsIn(evidence.labeled_history[i])
                IN \/ 4 * k >= Cardinality(ClaimKeywords)
                   \/ k >= Min(2, Cardinality(ClaimKeywords)))

(***************************************************************************)
(* Claims about the final verdict                                          *)
(***************************************************************************)
Done == stage = "done" /\ cot_result # None /\ verify_result # None

Parsed == cot_result.raw_response.kind = "response"

\* C22: when the LLM output parses into a verdict, the final verdict carries
\* that label and a confidence between 0.1 and 0.95, whatever confidence the
\* LLM reports and whatever the web boost is.
C22_ParsedVerdictIsFinal ==
  (Done /\ Parsed)
    => /\ verify_result.verdict.label = cot_result.verdict
       /\ verify_result.verdict.confidence >= 100
       /\ verify_result.verdict.confidence <= 950

(***************************************************************************)
(* Claims about the similarity of a bundle                                 *)
(***************************************************************************)
\* the tiers with bounds 0.90, 0.70 and 0.50
TierOf(score) ==
  IF score >= 90 THEN "high"
  ELSE IF score >= 70 THEN "medium"
  ELSE IF score >= 50 THEN "low"
  ELSE "none"

\* C23: in every bundle retrieve returns, top_similarity is the largest score
\* among the items of labeled_history and unlabeled_context (0 when there is
\* none), and similarity_level is the tier of that value with the bounds
\* 0.90, 0.70 and 0.50.
C23_TopSimilarity ==
  HasBundle =>
    /\ evidence.top_similarity =
         TopSimilarity(evidence.labeled_history \o evidence.unlabeled_context)
    /\ evidence.similarity_level = TierOf(evidence.top_similarity)

(***************************************************************************)
(* Claims about the decomposition of a claim                               *)
(***************************************************************************)
Decomposed == stage = "decomposed"

ExtractedYears == {y \in decomposed.original_claim.years : y >= 2010 /\ y <= 2029}

\* C25: the temporal type is "recent" when an immediacy keyword occurs in the
\* claim; else "recent" when a year from 2010 to 2029 in it is the current
\* year or later; else "historical" when its latest such year is 2023 or
\* earlier; else "general".  needs_web_search is true exactly for "recent".
C25_TemporalType ==
  Decomposed =>
    /\ decomposed.years = ExtractedYears
    /\ decomposed.temporal_type =
         IF decomposed.original_claim.recent_keyword THEN "recent"
         ELSE IF \E y \in ExtractedYears : y >= current_year THEN "recent"
         ELSE IF ExtractedYears # {} /\ \A y \in ExtractedYears : y <= 2023
           THEN "historical"
         ELSE "general"
    /\ decomposed.needs_web_search <=> decomposed.temporal_type = "recent"

\* a claim with an immediacy keyword and an old year in it
C25_Witness ==
  /\ Decomposed
  /\ decomposed.original_claim.recent_keyword
  /\ ExtractedYears = {2019}
  /\ decomposed.temporal_type = "recent"
  /\ decomposed.needs_web_search

(***************************************************************************)
(* Claims about RetrievalAgent                                             *)
(***************************************************************************)
EvidenceRetrieved == stage = "evidence retrieved"

Matched == Items(search.dataset) \cup Items(search.live_news)

\* C26: retrieve_evidence returns the documents the vector store search
\* yields, each once, at most top_k of them, the best first in descending
\* order of score; it returns the empty list when the store is unavailable or
\* the search raises.
C26_RetrieveEvidence ==
  EvidenceRetrieved =>
    IF search.use_pinecone /\ ~search.failed
      THEN /\ Len(evidence) = Min(search.top_k, Cardinality(Matched))
           /\ Items(evidence) \subseteq Matched
           /\ \A i, j \in 1..Len(evidence) :
                i < j => evidence[i] # evidence[j] /\ evidence[i].score >= evidence[j].score
           /\ \A doc \in Matched \ Items(evidence) :
                \A i \in 1..Len(evidence) : evidence[i].score >= doc.score
      ELSE evidence = << >>

(***************************************************************************)
(* Claims about LongTermMemory                                             *)
(***************************************************************************)
\* store(claim, r) has returned True: it wrote the row or the fallback
\* entry, and neither is ever removed
StoredOnce(claim) ==
  \/ pg[LongTermMemory_get_hash(claim)] # None
  \/ fallback_storage[LongTermMemory_get_hash(claim)] # None

\* C28: once store(c, r) has returned True, every later get(c) returns an
\* entry, whatever happened to the PostgreSQL connection in between.
C28_StoredStaysVisible ==
  (log.op = "long_get" /\ StoredOnce(log.claim)) => log.ret # None

(***************************************************************************)
(* Claims about the embedding providers                                    *)
(***************************************************************************)
ProviderRank(provider) ==
  CASE provider = "openrouter" -> 1
    [] provider = "pinecone"   -> 2
    [] provider = "local"      -> 3

\* C29: in auto mode the current provider only ever moves forward in the
\* order openrouter, pinecone, local, over any sequence of get_embeddings
\* calls; with an explicitly configured provider it never changes.
C29_ProviderMonotone ==
  [][/\ ProviderRank(lang_proc'.provider) >= ProviderRank(lang_proc.provider)
     /\ lang_proc'.auto_fallback = lang_proc.auto_fallback
     /\ ~lang_proc.auto_fallback => lang_proc'.provider = lang_proc.provider]_vars

\* an agent in auto mode demoted down to the local model, which served
\* the last call
C29_Witness ==
  /\ lang_proc = [provider |-> "local", auto_fallback |-> TRUE]
  /\ search # None
  /\ search.embedding = "local"

OverrideGate ==
  web_analysis.verdict_override # "None" /\ web_analysis.support_count >= 2

AskedAgain(claim) ==
  /\ held # None
  /\ held.claim = claim
  /\ stage = "start"

\* C27: a result that verify returned with from_cache = false keeps
\* from_cache = false in the caller's hands, and the entry the short-term
\* tier stores for the claim does not say from_cache = true, whatever later
\* verify calls hit the cache.
C27_HitLeavesResultsAlone ==
  held # None
  => /\ held.result.from_cache = FALSE
     /\ LET entry == ShortEntry(Mem, held.claim) IN
          (entry # None /\ "from_cache" \in DOMAIN entry) => entry.from_cache = FALSE

\* C24: with use_cache, a hit ends verify with the cached result marked
\* from_cache = true and no stage run; and once a verify of a claim has gone
\* through synthesis (the stages running in order, nothing cached before the
\* end), the next verify of that claim finds it in the cache when both tiers
\* can be reached.
C24_CacheThenStages ==
  /\ (stage = "done" /\ verify_result.from_cache = TRUE)
       => decomposed = None /\ evidence = None /\ cross_exam = None /\ cot_result = None
  /\ stage \in {"retrieved", "examined", "analyzed", "reasoned"} => decomposed # None
  /\ stage \in {"examined", "analyzed", "reasoned"} => evidence # None
  /\ stage \in {"analyzed", "reasoned"} => cross_exam # None
  /\ stage = "reasoned" => cot_result # None
  /\ held = None
       => \A claim \in Claims : ShortEntry(Mem, claim) = None /\ LongEntry(Mem, claim) = None
  /\ \A claim \in Claims :
       (AskedAgain(claim) /\ Settled(ShortMode(Mem)) /\ Settled(LongMode(Mem)))
       => Truthy(MemoryManager_get_cached_result(Mem, claim).ret)

====
